---- MODULE Spec2Model ----
(***************************************************************************)
(* Model of runner.py (ZaectorCore): the browser-scan runner.              *)
(*                                                                         *)
(* Two threads: the main flow run_scan and the daemon thread               *)
(* parent_watchdog.  The environment closes or breaks stdin, sends bytes   *)
(* on it, closes the launched browser window, and interrupts the keep-open *)
(* loop.  Every Playwright call either succeeds or raises; which of the    *)
(* two is the environment's choice, except that a call on a browser that   *)
(* is gone cannot succeed.                                                 *)
(***************************************************************************)
EXTENDS Integers, Sequences, FiniteSets, TLC

\* ------------------------------------------------------------------ bounds
MaxContexts == 1
MaxPages == 1
MaxElements == 1
MaxPolls == 1
MaxStdinBytes == 1

\* --------------------------------------------------------------- constants
DEBUG_PORT == 9222

\* ------------------------------------------------------------------ inputs
KeepOpenArgs == {"true", "True", "false"}
HeadlessArgs == {"false", "True"}
TargetUrls == {"", "http://target"}

RECURSIVE SeqsUpTo(_, _)
SeqsUpTo(S, n) ==
    IF n = 0 THEN {<<>>}
    ELSE LET shorter == SeqsUpTo(S, n - 1)
         IN  shorter \cup {Append(s, x) : s \in {t \in shorter : Len(t) = n - 1}, x \in S}

\* browser.contexts of the existing browser: the number of pages of each context
ContextShapes == SeqsUpTo(0..MaxPages, MaxContexts)

\* what window.__PLAYWRIGHT_SCANNER__.scan() may hand back: a list of element
\* records, or None (a value without len())
NoneResult == [kind |-> "None", items |-> <<>>]
ScanResults ==
    {[kind |-> "list", items |-> s] : s \in SeqsUpTo({"el"}, MaxElements)}
        \cup {NoneResult}

VARIABLES
    js_file_readable,    \* argv[1] names a file open() can read
    target_url,          \* argv[2]
    headless_mode,       \* argv[3]
    keep_open,           \* argv[4]
    reachable,           \* a debuggable browser listens on DEBUG_PORT
    contexts,            \* its browser.contexts, as page counts
    pc,                  \* position of the main flow
    exc,                 \* an exception is propagating out of the with block
    wd,                  \* position of the watchdog thread
    stdin,               \* "open", "eof" or "error"
    stdinBytes,          \* bytes the parent has written to stdin
    exited, exitCode, exitBy,
    browser,             \* the variable browser: "none", "existing", "launched"
    page,                \* the variable page
    is_existing_browser,
    handles,             \* browsers this process has obtained a handle to
    existingState,       \* the browser found on DEBUG_PORT
    launchedState,       \* the browser launched by this process
    launchArgs,          \* headless= and args= passed to launch
    elements,            \* result of the scan entry point
    ops,                 \* browser operations issued, in order
    polls,               \* iterations of the keep-open loop
    stdoutBuf, stdout,   \* sys.stdout: buffered, and written to the channel
    stderr               \* log lines written to sys.stderr

vars == <<js_file_readable, target_url, headless_mode, keep_open, reachable,
          contexts, pc, exc, wd, stdin, stdinBytes, exited, exitCode, exitBy,
          browser, page, is_existing_browser, handles, existingState,
          launchedState, launchArgs, elements, ops, polls, stdoutBuf,
          stdout, stderr>>

inputVars == <<js_file_readable, target_url, headless_mode, keep_open,
               reachable, contexts>>
ioVars == <<stdoutBuf, stdout, stderr>>
watchVars == <<wd, stdin, stdinBytes>>
exitVars == <<exited, exitCode, exitBy>>
sessionVars == <<browser, page, is_existing_browser, handles, launchArgs>>
worldVars == <<existingState, launchedState>>

\* ----------------------------------------------------------------- helpers
\* str.lower() on the argument strings in use
Lower(s) ==
    CASE s = "True" -> "true"
      [] s = "TRUE" -> "true"
      [] s = "False" -> "false"
      [] OTHER -> s

Min(a, b) == IF a < b THEN a ELSE b

\* json.dumps(elements, indent=2) followed by print's newline
RECURSIVE JsonItems(_)
JsonItems(s) ==
    IF Len(s) = 0 THEN <<>>
    ELSE IF Len(s) = 1 THEN <<"{", s[1], "}">>
    ELSE <<"{", s[1], "}", ",">> \o JsonItems(Tail(s))

JsonDumps(v) ==
    IF v.kind = "list" THEN <<"[">> \o JsonItems(v.items) \o <<"]">> ELSE <<"null">>

\* len(elements) is defined
HasLen(v) == v.kind = "list"

Log(tag) == stderr' = Append(stderr, tag)

Issue(name, target, ok) == ops' = Append(ops, <<name, target, ok>>)

\* the browser behind a handle still answers
Alive(h) ==
    CASE h = "existing" -> existingState = "running"
      [] h = "launched" -> launchedState = "running"
      [] OTHER -> FALSE

Running == ~exited

\* ------------------------------------------------------------ initial state
NoLaunch == [headless |-> FALSE, port |-> 0]

Init ==
    /\ js_file_readable \in BOOLEAN
    /\ target_url \in TargetUrls
    /\ headless_mode \in HeadlessArgs
    /\ keep_open \in KeepOpenArgs
    /\ reachable \in BOOLEAN
    /\ contexts \in (IF reachable THEN ContextShapes ELSE {<<>>})
    /\ pc = "start"
    /\ exc = FALSE
    /\ wd = "unstarted"
    /\ stdin = "open"
    /\ stdinBytes = 0
    /\ exited = FALSE
    /\ exitCode = -1
    /\ exitBy = "none"
    /\ browser = "none"
    /\ page = "none"
    /\ is_existing_browser = FALSE
    /\ handles = {}
    /\ existingState = IF reachable THEN "running" ELSE "absent"
    /\ launchedState = "none"
    /\ launchArgs = NoLaunch
    /\ elements = [kind |-> "unset", items |-> <<>>]
    /\ ops = <<>>
    /\ polls = 0
    /\ stdoutBuf = <<>>
    /\ stdout = <<>>
    /\ stderr = <<>>

\* --------------------------------------------------------- the main flow
\* mutant: the thread is created but never started
StartWatchdog_NotStarted ==
    /\ Running /\ pc = "start"
    /\ Log("starting_scan")
    /\ pc' = "load_js"
    /\ UNCHANGED <<inputVars, exc, watchVars, exitVars, sessionVars,
                   worldVars, elements, ops, polls, stdoutBuf, stdout>>

\* run_scan, lines 27-31: the first log line, then the watchdog thread starts
StartWatchdog ==
    /\ Running /\ pc = "start"
    /\ Log("starting_scan")
    /\ wd' = "reading"
    /\ pc' = "load_js"
    /\ UNCHANGED <<inputVars, exc, stdin, stdinBytes, exitVars, sessionVars,
                   worldVars, elements, ops, polls, stdoutBuf, stdout>>

\* mutant: the error of open() is ignored
LoadScript_IgnoresError ==
    /\ Running /\ pc = "load_js"
    /\ pc' = "enter_playwright"
    /\ UNCHANGED <<inputVars, exc, watchVars, exitVars, sessionVars, worldVars,
                   elements, ops, polls, ioVars>>

\* lines 35-36: open() and read() of the scanner script; an error leaves the
\* outer try before the with block is entered
LoadScript ==
    /\ Running /\ pc = "load_js"
    /\ pc' = IF js_file_readable THEN "enter_playwright" ELSE "critical"
    /\ UNCHANGED <<inputVars, exc, watchVars, exitVars, sessionVars, worldVars,
                   elements, ops, polls, ioVars>>

\* line 38, entering the with block (and the log line 44)
EnterPlaywright ==
    /\ Running /\ pc = "enter_playwright"
    /\ \E ok \in BOOLEAN :
          IF ok
          THEN /\ pc' = "connect"
               /\ Log("attempting_connect")
          ELSE /\ pc' = "critical"
               /\ UNCHANGED stderr
    /\ UNCHANGED <<inputVars, exc, watchVars, exitVars, sessionVars, worldVars,
                   elements, ops, polls, stdoutBuf, stdout>>

\* lines 57-62: the handler of the attach attempt, up to the launch call
FallBackToLaunch ==
    /\ Log("no_existing_browser")
    /\ is_existing_browser' = FALSE
    /\ pc' = "launch"

\* lines 46-48: connect_over_cdp succeeds exactly when a browser listens
ConnectOverCdp ==
    /\ Running /\ pc = "connect"
    /\ IF reachable /\ existingState = "running"
       THEN /\ Issue("connect_over_cdp", "existing", TRUE)
            /\ browser' = "existing"
            /\ handles' = handles \cup {"existing"}
            /\ is_existing_browser' = TRUE
            /\ Log("connected_existing")
            /\ pc' = "pick_page"
       ELSE /\ Issue("connect_over_cdp", "existing", FALSE)
            /\ FallBackToLaunch
            /\ UNCHANGED <<browser, handles>>
    /\ UNCHANGED <<inputVars, exc, watchVars, exitVars, page, launchArgs,
                   worldVars, elements, polls, stdoutBuf, stdout>>

\* line 50
HasExistingPage(ctxs) == Len(ctxs) > 0 /\ ctxs[1] > 0

\* lines 50-55: reuse contexts[0].pages[0] or open a new page; new_page is
\* inside the attach try block, so its error also falls back to launching
PickPage ==
    /\ Running /\ pc = "pick_page"
    /\ IF HasExistingPage(contexts)
       THEN /\ page' = "contexts[0].pages[0]"
            /\ Log("using_existing_page")
            /\ pc' = "inject"
            /\ UNCHANGED <<ops, is_existing_browser>>
       ELSE \E ok \in {b \in BOOLEAN : b => Alive(browser)} :
              /\ Issue("new_page", browser, ok)
              /\ IF ok
                 THEN /\ page' = "new_page@existing"
                      /\ Log("created_page_in_existing")
                      /\ pc' = "inject"
                      /\ UNCHANGED is_existing_browser
                 ELSE /\ FallBackToLaunch
                      /\ UNCHANGED page
    /\ UNCHANGED <<inputVars, exc, watchVars, exitVars, browser, handles,
                   launchArgs, worldVars, elements, polls, stdoutBuf, stdout>>

\* lines 61-64: p.chromium.launch(headless=..., args=[port]); an error here is
\* not handled inside the with block
Launch ==
    /\ Running /\ pc = "launch"
    /\ launchArgs' = [headless |-> (Lower(headless_mode) = "true"), port |-> DEBUG_PORT]
    /\ \E ok \in BOOLEAN :
          /\ Issue("launch", "launched", ok)
          /\ IF ok
             THEN /\ browser' = "launched"
                  /\ handles' = handles \cup {"launched"}
                  /\ launchedState' = "running"
                  /\ pc' = "new_page"
                  /\ UNCHANGED exc
             ELSE /\ exc' = TRUE
                  /\ pc' = "exit_playwright"
                  /\ UNCHANGED <<browser, handles, launchedState>>
    /\ UNCHANGED <<inputVars, watchVars, exitVars, page, is_existing_browser,
                   existingState, elements, polls, ioVars>>

\* mutant: the test of line 68 is missing
ShouldNavigate_Always(url) == TRUE

\* line 68
ShouldNavigate(url) == url # ""

\* lines 65-69: new_page on the launched browser, then the target_url test
NewPage ==
    /\ Running /\ pc = "new_page"
    /\ \E ok \in {b \in BOOLEAN : b => Alive(browser)} :
          /\ Issue("new_page", browser, ok)
          /\ IF ok
             THEN /\ page' = "new_page@launched"
                  /\ IF ShouldNavigate(target_url)
                     THEN /\ stderr' = stderr \o <<"browser_launched", "navigating">>
                          /\ pc' = "goto"
                     ELSE /\ Log("browser_launched")
                          /\ pc' = "inject"
                  /\ UNCHANGED exc
             ELSE /\ exc' = TRUE
                  /\ pc' = "exit_playwright"
                  /\ UNCHANGED <<page, stderr>>
    /\ UNCHANGED <<inputVars, watchVars, exitVars, browser, is_existing_browser,
                   handles, launchArgs, worldVars, elements, polls, stdoutBuf,
                   stdout>>

\* line 70: page.goto is outside the inner try, its errors are fatal
Goto ==
    /\ Running /\ pc = "goto"
    /\ \E ok \in {b \in BOOLEAN : b => Alive(browser)} :
          /\ Issue("goto", browser, ok)
          /\ IF ok
             THEN pc' = "wait_load" /\ UNCHANGED exc
             ELSE pc' = "exit_playwright" /\ exc' = TRUE
    /\ UNCHANGED <<inputVars, watchVars, exitVars, sessionVars, worldVars,
                   elements, polls, ioVars>>

\* mutant: the wait of line 72 outside a try block
WaitForLoadState_Fatal ==
    /\ Running /\ pc = "wait_load"
    /\ \E ok \in {b \in BOOLEAN : b => Alive(browser)} :
          /\ Issue("wait_for_load_state", browser, ok)
          /\ IF ok
             THEN Log("page_loaded") /\ pc' = "inject" /\ UNCHANGED exc
             ELSE UNCHANGED stderr /\ pc' = "exit_playwright" /\ exc' = TRUE
    /\ UNCHANGED <<inputVars, watchVars, exitVars, sessionVars, worldVars,
                   elements, polls, stdoutBuf, stdout>>

\* lines 71-76: wait_for_load_state under a bare except
WaitForLoadState ==
    /\ Running /\ pc = "wait_load"
    /\ \E ok \in {b \in BOOLEAN : b => Alive(browser)} :
          /\ Issue("wait_for_load_state", browser, ok)
          /\ Log(IF ok THEN "page_loaded" ELSE "page_load_timeout")
    /\ pc' = "inject"
    /\ UNCHANGED <<inputVars, exc, watchVars, exitVars, sessionVars, worldVars,
                   elements, polls, stdoutBuf, stdout>>

\* mutant: a failed scan is tried again
ScanErrorTarget_Retries == "inject"

\* mutant: the scan's try block also encloses the finalizer
ScanErrorTarget_SkipsFinalizer == "exit_playwright"

\* where the main flow continues after the handler of lines 91-92
ScanErrorTarget == "finalize"

\* lines 91-92: the handler of the scan try block
ScanFailed ==
    /\ Log("scan_failed")
    /\ pc' = ScanErrorTarget

\* lines 79-81: page.evaluate(js_scanner_code)
InjectScript ==
    /\ Running /\ pc = "inject"
    /\ \E ok \in {b \in BOOLEAN : b => Alive(browser)} :
          /\ Issue("evaluate_script", browser, ok)
          /\ IF ok
             THEN /\ Log("starting_dom_scan")
                  /\ pc' = "invoke"
             ELSE /\ stderr' = stderr \o <<"starting_dom_scan", "scan_failed">>
                  /\ pc' = ScanErrorTarget
    /\ UNCHANGED <<inputVars, exc, watchVars, exitVars, sessionVars, worldVars,
                   elements, polls, stdoutBuf, stdout>>

\* lines 82-83: the entry point, then len(elements) for the log line
InvokeScan ==
    /\ Running /\ pc = "invoke"
    /\ \/ /\ Issue("evaluate_scan", browser, FALSE)
          /\ ScanFailed
          /\ UNCHANGED elements
       \/ /\ Alive(browser)
          /\ Issue("evaluate_scan", browser, TRUE)
          /\ \E r \in ScanResults :
                /\ elements' = r
                /\ IF HasLen(r)
                   THEN Log("scan_complete") /\ pc' = "print_json"
                   ELSE ScanFailed
    /\ UNCHANGED <<inputVars, exc, watchVars, exitVars, sessionVars, worldVars,
                   polls, stdoutBuf, stdout>>

\* lines 85-86, 88-89: print(json.dumps(...)) into sys.stdout's buffer; an
\* error of the write is swallowed
PrintJson ==
    /\ Running /\ pc = "print_json"
    /\ \/ /\ stdoutBuf' = Append(stdoutBuf, JsonDumps(elements) \o <<"\n">>)
          /\ pc' = "flush"
       \/ /\ pc' = "finalize"
          /\ UNCHANGED stdoutBuf
    /\ UNCHANGED <<inputVars, exc, watchVars, exitVars, sessionVars, worldVars,
                   elements, ops, polls, stdout, stderr>>

\* line 87
FlushStdout ==
    /\ Running /\ pc = "flush"
    /\ stdout' = stdout \o stdoutBuf
    /\ stdoutBuf' = <<>>
    /\ pc' = "finalize"
    /\ UNCHANGED <<inputVars, exc, watchVars, exitVars, sessionVars, worldVars,
                   elements, ops, polls, stderr>>

\* mutant: the origin test of line 98 is missing
FinalizerDecision_IgnoresOrigin(existing, should_keep_open) ==
    IF should_keep_open THEN "poll" ELSE "close"

\* mutant: the else branch of lines 121-124 is missing
FinalizerDecision_NeverCloses(existing, should_keep_open) ==
    IF existing THEN "leave"
    ELSE IF should_keep_open THEN "poll" ELSE "leave"

\* lines 98, 105, 107, 121: the branch of the lifecycle finalizer
FinalizerDecision(existing, should_keep_open) ==
    IF existing THEN "leave"
    ELSE IF should_keep_open THEN "poll" ELSE "close"

\* lines 95-109, 122: the lifecycle log lines and the branch
Finalize ==
    /\ Running /\ pc = "finalize"
    /\ LET should_keep_open == Lower(keep_open) = "true"
           d == FinalizerDecision(is_existing_browser, should_keep_open)
       IN  CASE d = "leave" ->
                  /\ stderr' = stderr \o <<"lifecycle", "leaving_open">>
                  /\ pc' = "exit_playwright"
             [] d = "poll" ->
                  /\ stderr' = stderr \o <<"lifecycle", "keeping_open">>
                  /\ pc' = "poll"
             [] d = "close" ->
                  /\ stderr' = stderr \o <<"lifecycle", "closing">>
                  /\ pc' = "close"
    /\ UNCHANGED <<inputVars, exc, watchVars, exitVars, sessionVars, worldVars,
                   elements, ops, polls, stdoutBuf, stdout>>

\* mutant: the loop of line 112 does not wait
LoopContinues_Never(connected) == FALSE

\* mutant: the loop test of line 112 is negated
LoopContinues_Inverted(connected) == ~connected

\* line 112: the loop test
LoopContinues(connected) == connected

\* lines 112-114: one test of is_connected(), then sleep(1) or the loop's end
\* (ops records the first MaxPolls tests that found the browser connected)
PollConnected ==
    /\ Running /\ pc = "poll"
    /\ IF LoopContinues(Alive(browser))
       THEN /\ polls' = Min(polls + 1, MaxPolls)
            /\ IF polls < MaxPolls
               THEN Issue("is_connected", browser, Alive(browser))
               ELSE UNCHANGED ops
            /\ UNCHANGED <<pc, stderr>>
       ELSE /\ Issue("is_connected", browser, Alive(browser))
            /\ Log("closed_by_user")
            /\ pc' = "exit_playwright"
            /\ UNCHANGED polls
    /\ UNCHANGED <<inputVars, exc, watchVars, exitVars, sessionVars, worldVars,
                   elements, stdoutBuf, stdout>>

\* lines 115-117: Ctrl-C while the keep-open loop runs
KeyboardInterrupt ==
    /\ Running /\ pc = "poll"
    /\ Log("interrupted")
    /\ pc' = "exit_playwright"
    /\ UNCHANGED <<inputVars, exc, watchVars, exitVars, sessionVars, worldVars,
                   elements, ops, polls, stdoutBuf, stdout>>

\* lines 118-120: is_connected() or sleep() raises
PollError ==
    /\ Running /\ pc = "poll"
    /\ Issue("is_connected", browser, FALSE)
    /\ Log("monitoring_error")
    /\ pc' = "exit_playwright"
    /\ UNCHANGED <<inputVars, exc, watchVars, exitVars, sessionVars, worldVars,
                   elements, polls, stdoutBuf, stdout>>

\* the effect of browser.close() on the browser behind the handle
Closed(h, state) == IF state = "running" THEN "closed" ELSE state

\* lines 123-124: browser.close() on whatever the variable browser holds
CloseBrowser ==
    /\ Running /\ pc = "close"
    /\ \E ok \in BOOLEAN :
          /\ Issue("close", browser, ok)
          /\ IF ok
             THEN /\ existingState' =
                        IF browser = "existing" THEN Closed(browser, existingState)
                        ELSE existingState
                  /\ launchedState' =
                        IF browser = "launched" THEN Closed(browser, launchedState)
                        ELSE launchedState
                  /\ Log("browser_closed")
                  /\ UNCHANGED exc
             ELSE /\ exc' = TRUE
                  /\ UNCHANGED <<worldVars, stderr>>
    /\ pc' = "exit_playwright"
    /\ UNCHANGED <<inputVars, watchVars, exitVars, sessionVars, elements, polls,
                   stdoutBuf, stdout>>

\* what leaving the with block does to a browser this process launched: the
\* Playwright driver stops and takes the browsers it started with it
DriverStopped(state) == IF state = "running" THEN "killed" ELSE state

\* line 38, leaving the with block, normally or with an exception: the driver
\* stops; a browser attached over CDP is only disconnected
ExitPlaywright ==
    /\ Running /\ pc = "exit_playwright"
    /\ launchedState' = DriverStopped(launchedState)
    /\ pc' = IF exc THEN "critical" ELSE "return"
    /\ UNCHANGED <<inputVars, exc, watchVars, exitVars, sessionVars,
                   existingState, elements, ops, polls, ioVars>>

\* mutant: line 127 without file=sys.stderr
CriticalError_ToStdout ==
    /\ Running /\ pc = "critical"
    /\ stdoutBuf' = Append(stdoutBuf, <<"CRITICAL ERROR", "\n">>)
    /\ pc' = "sys_exit"
    /\ UNCHANGED <<inputVars, exc, watchVars, exitVars, sessionVars, worldVars,
                   elements, ops, polls, stdout, stderr>>

\* lines 126-127
CriticalError ==
    /\ Running /\ pc = "critical"
    /\ Log("CRITICAL ERROR")
    /\ pc' = "sys_exit"
    /\ UNCHANGED <<inputVars, exc, watchVars, exitVars, sessionVars, worldVars,
                   elements, ops, polls, stdoutBuf, stdout>>

\* the interpreter's exit from the main thread: sys.stdout is flushed, the
\* daemon thread dies with the process
InterpreterExit(code) ==
    /\ exited' = TRUE
    /\ exitCode' = code
    /\ exitBy' = "main"
    /\ stdout' = stdout \o stdoutBuf
    /\ stdoutBuf' = <<>>
    /\ pc' = "done"

\* mutant: line 128 exits with status 0
SysExit_Zero ==
    /\ Running /\ pc = "sys_exit"
    /\ InterpreterExit(0)
    /\ UNCHANGED <<inputVars, exc, watchVars, sessionVars, worldVars, elements,
                   ops, polls, stderr>>

\* line 128
SysExit ==
    /\ Running /\ pc = "sys_exit"
    /\ InterpreterExit(1)
    /\ UNCHANGED <<inputVars, exc, watchVars, sessionVars, worldVars, elements,
                   ops, polls, stderr>>

\* mutant: the watchdog thread is not a daemon, the interpreter joins it
MainReturn_JoinsWatchdog ==
    /\ Running /\ pc = "return" /\ wd # "reading"
    /\ InterpreterExit(0)
    /\ UNCHANGED <<inputVars, exc, watchVars, sessionVars, worldVars, elements,
                   ops, polls, stderr>>

\* line 136: run_scan returns and the script ends
MainReturn ==
    /\ Running /\ pc = "return"
    /\ InterpreterExit(0)
    /\ UNCHANGED <<inputVars, exc, watchVars, sessionVars, worldVars, elements,
                   ops, polls, stderr>>

run_scan ==
    \/ StartWatchdog \/ LoadScript \/ EnterPlaywright \/ ConnectOverCdp
    \/ PickPage \/ Launch \/ NewPage \/ Goto \/ WaitForLoadState
    \/ InjectScript \/ InvokeScan \/ PrintJson \/ FlushStdout \/ Finalize
    \/ PollConnected \/ KeyboardInterrupt \/ PollError \/ CloseBrowser
    \/ ExitPlaywright \/ CriticalError \/ SysExit \/ MainReturn

\* ------------------------------------------------------ the watchdog thread
\* mutant: read(1), which returns as soon as one byte has arrived
WatchdogRead_OneByte ==
    /\ Running /\ wd = "reading" /\ (stdin # "open" \/ stdinBytes > 0)
    /\ wd' = IF stdin = "error" THEN "read_raised" ELSE "read_returned"
    /\ UNCHANGED <<inputVars, pc, exc, stdin, stdinBytes, exitVars, sessionVars,
                   worldVars, elements, ops, polls, ioVars>>

\* line 18: sys.stdin.read() returns at end of stream, or raises; bytes that
\* arrive are consumed and the call keeps blocking
WatchdogRead ==
    /\ Running /\ wd = "reading" /\ stdin # "open"
    /\ wd' = IF stdin = "eof" THEN "read_returned" ELSE "read_raised"
    /\ UNCHANGED <<inputVars, pc, exc, stdin, stdinBytes, exitVars, sessionVars,
                   worldVars, elements, ops, polls, ioVars>>

\* mutant: line 24 exits with status 0 as well
WatchdogStatus_AlwaysZero(w) == 0

\* the status os._exit is called with
WatchdogStatus(w) == IF w = "read_returned" THEN 0 ELSE 1

\* mutant: the thread returns instead of calling os._exit
WatchdogExit_Returns ==
    /\ Running /\ wd \in {"read_returned", "read_raised"}
    /\ wd' = "exited"
    /\ UNCHANGED <<inputVars, pc, exc, stdin, stdinBytes, exitVars, sessionVars,
                   worldVars, elements, ops, polls, ioVars>>

\* mutant: sys.exit-like termination, with the flush and the browser's close
WatchdogExit_WithCleanup ==
    /\ Running /\ wd \in {"read_returned", "read_raised"}
    /\ exited' = TRUE
    /\ exitCode' = WatchdogStatus(wd)
    /\ exitBy' = "monitor"
    /\ wd' = "exited"
    /\ stdout' = stdout \o stdoutBuf
    /\ stdoutBuf' = <<>>
    /\ launchedState' = DriverStopped(launchedState)
    /\ UNCHANGED <<inputVars, pc, exc, stdin, stdinBytes, sessionVars,
                   existingState, elements, ops, polls, stderr>>

\* lines 22 and 24: os._exit, no cleanup handlers, no flush of sys.stdout
WatchdogExit ==
    /\ Running /\ wd \in {"read_returned", "read_raised"}
    /\ exited' = TRUE
    /\ exitCode' = WatchdogStatus(wd)
    /\ exitBy' = "monitor"
    /\ wd' = "exited"
    /\ UNCHANGED <<inputVars, pc, exc, stdin, stdinBytes, sessionVars, worldVars,
                   elements, ops, polls, ioVars>>

parent_watchdog == WatchdogRead \/ WatchdogExit

\* ---------------------------------------------------------- the environment
\* the parent process dies or closes its end of the pipe
ParentClosesStdin ==
    /\ Running /\ stdin = "open"
    /\ stdin' = "eof"
    /\ UNCHANGED <<inputVars, pc, exc, wd, stdinBytes, exitVars, sessionVars,
                   worldVars, elements, ops, polls, ioVars>>

\* reading stdin fails
StdinBreaks ==
    /\ Running /\ stdin = "open"
    /\ stdin' = "error"
    /\ UNCHANGED <<inputVars, pc, exc, wd, stdinBytes, exitVars, sessionVars,
                   worldVars, elements, ops, polls, ioVars>>

\* the parent writes a byte
ParentWrites ==
    /\ Running /\ stdin = "open" /\ stdinBytes < MaxStdinBytes
    /\ stdinBytes' = stdinBytes + 1
    /\ UNCHANGED <<inputVars, pc, exc, wd, stdin, exitVars, sessionVars,
                   worldVars, elements, ops, polls, ioVars>>

\* the user closes the launched browser's window
UserClosesBrowser ==
    /\ Running /\ launchedState = "running"
    /\ launchedState' = "gone"
    /\ UNCHANGED <<inputVars, pc, exc, watchVars, exitVars, sessionVars,
                   existingState, elements, ops, polls, ioVars>>

Environment ==
    \/ ParentClosesStdin \/ StdinBreaks \/ ParentWrites \/ UserClosesBrowser

\* ------------------------------------------------------------ specification
Next == run_scan \/ parent_watchdog \/ Environment

Spec == Init /\ [][Next]_vars

\* the scheduler runs the watchdog thread, and the thread gets started
FairSpec == Spec /\ WF_vars(parent_watchdog) /\ WF_vars(StartWatchdog)

\* the main thread is scheduled as well
LiveSpec == FairSpec /\ WF_vars(run_scan)

\* ------------------------------------------------------------------ queries
Issued(name) == {i \in DOMAIN ops : ops[i][1] = name}
Succeeded(name) == \E i \in Issued(name) : ops[i][3]
Raised(name) == \E i \in Issued(name) : ~ops[i][3]
Logged(tag) == \E i \in DOMAIN stderr : stderr[i] = tag
ShouldKeepOpen == Lower(keep_open) = "true"
FreshLaunch == ~reachable /\ "launched" \in handles
MainExited == exited /\ exitBy = "main"
MonitorExited == exited /\ exitBy = "monitor"

\* ------------------------------------------------------------------- claims

\* C1: when an existing browser is reachable on the debugging endpoint, no
\* close operation is ever issued against it and it stays running, for either
\* keep-open value and whether the scan succeeded or failed.
C1_NeverClosesExisting ==
    reachable =>
        /\ \A i \in Issued("close") : ops[i][2] # "existing"
        /\ existingState = "running"

C1_Witness ==
    /\ reachable /\ MainExited /\ exitCode = 0
    /\ browser = "existing"
    /\ ~ShouldKeepOpen
    /\ Raised("evaluate_scan")

\* C2 as stated: after a fresh launch with keep-open false, the launched
\* browser is no longer running in any state in which the process has exited.
C2_ClosedOnEveryExit ==
    (FreshLaunch /\ ~ShouldKeepOpen /\ exited) => launchedState # "running"

\* C2 amended: after a fresh launch with keep-open false, the launched browser
\* is no longer running whenever the main flow has ended the process, and a
\* normal completion (status 0) has issued a successful close on it; an exit
\* forced by the watchdog skips the cleanup.
C2_ClosedOnMainExit ==
    (FreshLaunch /\ ~ShouldKeepOpen /\ MainExited) =>
        /\ launchedState # "running"
        /\ exitCode = 0 =>
              \E i \in Issued("close") : ops[i][2] = "launched" /\ ops[i][3]

C2_Witness ==
    /\ FreshLaunch /\ ~ShouldKeepOpen /\ MainExited
    /\ exitCode = 0 /\ launchedState = "closed"

\* C3 as stated: after a fresh launch with keep-open true, the process has
\* never exited while the launched browser is still connected.
C3_NoExitWhileConnected ==
    (FreshLaunch /\ ShouldKeepOpen /\ exited) => launchedState # "running"

\* C3 amended: after a fresh launch with keep-open true, the main flow never
\* ends the process while the launched browser is still connected, and it
\* completes normally without an interrupt or a monitoring error only after
\* the browser disconnected by itself; an exit forced by the watchdog can
\* happen while the browser is connected.
C3_NoMainExitWhileConnected ==
    (FreshLaunch /\ ShouldKeepOpen /\ MainExited) =>
        /\ launchedState # "running"
        /\ (exitCode = 0 /\ ~Logged("interrupted") /\ ~Logged("monitoring_error"))
              => (launchedState = "gone" /\ Logged("closed_by_user"))

C3_Witness ==
    /\ FreshLaunch /\ ShouldKeepOpen /\ MainExited /\ exitCode = 0
    /\ polls > 0 /\ Logged("closed_by_user")

\* C4: once stdin is at end of stream the process eventually terminates,
\* whatever the main flow is doing, when the watchdog thread is scheduled.
C4_StdinClosedLeadsToExit == (stdin = "eof") ~> exited

C4_Witness ==
    /\ stdin = "eof" /\ MonitorExited /\ exitCode = 0
    /\ pc = "poll" /\ launchedState = "running"

\* C5 as stated: once reading the scanner script has failed, the process
\* exits with a non-zero status, the critical error is logged and stdout is
\* empty.
C5_UnreadableScriptExitsNonZero ==
    (~js_file_readable /\ pc \in {"critical", "sys_exit", "done"} /\ exited) =>
        /\ exitCode # 0
        /\ Logged("CRITICAL ERROR")
        /\ stdout = <<>>

\* C5 amended: when the scanner script cannot be read, nothing is written to
\* stdout and no browser operation is issued; if the main flow ends the
\* process, the status is 1 and the critical error has been logged; the
\* watchdog may end the process first, with its own status and no such log.
C5_UnreadableScriptMainExit ==
    ~js_file_readable =>
        /\ stdout = <<>> /\ stdoutBuf = <<>>
        /\ ops = <<>>
        /\ MainExited => (exitCode = 1 /\ Logged("CRITICAL ERROR"))

C5_Witness ==
    ~js_file_readable /\ MainExited /\ exitCode = 1 /\ Logged("CRITICAL ERROR")

ScanRaised == Raised("evaluate_script") \/ Raised("evaluate_scan")
CloseRaised == Raised("close")
PastFinalize == pc \in {"poll", "close", "exit_playwright", "return", "critical",
                        "sys_exit", "done"}
ExpectedLifecycleLog ==
    IF browser = "existing" THEN "leaving_open"
    ELSE IF ShouldKeepOpen THEN "keeping_open" ELSE "closing"

\* C6: when the script injection or the entry point raises, the failure is
\* logged, nothing reaches stdout, the error does not abort the main flow
\* (only a failing close can do so afterwards), and the main flow goes through
\* the finalizer, which takes the branch given by the browser's origin and the
\* keep-open flag.
C6_ScanErrorReachesFinalizer ==
    ScanRaised =>
        /\ Logged("scan_failed")
        /\ stdout = <<>> /\ stdoutBuf = <<>>
        /\ pc = "finalize" \/ PastFinalize
        /\ PastFinalize => (Logged("lifecycle") /\ Logged(ExpectedLifecycleLog))
        /\ (exc \/ pc \in {"critical", "sys_exit"} \/ (MainExited /\ exitCode # 0))
              => CloseRaised

C6_Witness ==
    /\ Succeeded("evaluate_script") /\ Raised("evaluate_scan")
    /\ MainExited /\ exitCode = 0
    /\ browser = "launched" /\ Succeeded("close")

\* a line of stdout is the JSON array of the scan result
IsJsonOf(line, v) ==
    /\ v.kind = "list"
    /\ Len(line) >= 3
    /\ line[1] = "[" /\ line[Len(line) - 1] = "]" /\ line[Len(line)] = "\n"
    /\ Cardinality({i \in DOMAIN line : line[i] = "{"}) = Len(v.items)
    /\ \A k \in 1..Len(v.items) : \E i \in DOMAIN line : line[i] = v.items[k]

LogTags ==
    {"starting_scan", "attempting_connect", "connected_existing",
     "using_existing_page", "created_page_in_existing", "no_existing_browser",
     "browser_launched", "navigating", "page_loaded", "page_load_timeout",
     "starting_dom_scan", "scan_complete", "scan_failed", "lifecycle",
     "leaving_open", "keeping_open", "closing", "closed_by_user", "interrupted",
     "monitoring_error", "browser_closed", "CRITICAL ERROR"}

\* C7: stdout, buffered or written, holds at most one write, that write is
\* the JSON serialization of the scan result and exists only after both the
\* injection and the entry point succeeded.
C7_OnlyJsonOnStdout ==
    LET written == stdout \o stdoutBuf
    IN  /\ Len(written) <= 1
        /\ \A i \in DOMAIN written : IsJsonOf(written[i], elements)
        /\ written # <<>> =>
              (Succeeded("evaluate_script") /\ Succeeded("evaluate_scan"))
        /\ \A i \in DOMAIN written : \A k \in DOMAIN written[i] :
              written[i][k] \notin LogTags

C7_Witness ==
    /\ MainExited /\ Len(stdout) = 1 /\ Len(elements.items) = MaxElements
    /\ Logged("scan_complete")

\* C8: goto and the network-idle wait are issued only on the page of a
\* freshly launched browser and only with a non-empty target URL; a fresh
\* launch with an empty URL starts the scan on the new page, not navigated.
C8_NavigationOnlyFreshWithUrl ==
    /\ \A i \in Issued("goto") \cup Issued("wait_for_load_state") :
          ops[i][2] = "launched" /\ target_url # ""
    /\ pc \in {"goto", "wait_load"} => (browser = "launched" /\ target_url # "")
    /\ (Issued("goto") # {} \/ pc \in {"goto", "wait_load"}) =>
          page = "new_page@launched"
    /\ (target_url = "" /\ Issued("evaluate_script") # {} /\ browser = "launched")
          => (page = "new_page@launched" /\ Issued("goto") = {})

C8_Witness ==
    /\ target_url = "" /\ browser = "launched" /\ page = "new_page@launched"
    /\ Succeeded("evaluate_script") /\ Issued("goto") = {}

C10_AtMostOneSession == Cardinality(handles) <= 1

\* the page the attach path is documented to scan
ExpectedAttachedPage ==
    IF HasExistingPage(contexts) THEN "contexts[0].pages[0]" ELSE "new_page@existing"

\* C11: once attaching has succeeded, the scan is issued on the first page of
\* the first context when there is one and otherwise on a page newly created
\* in the attached browser, and the session is marked pre-existing.
C11_AttachedScanPage ==
    (Succeeded("connect_over_cdp") /\ (pc = "inject" \/ Issued("evaluate_script") # {}))
        => /\ page = ExpectedAttachedPage
           /\ is_existing_browser
           /\ \A i \in Issued("evaluate_script") : ops[i][2] = "existing"

\* the finalizer finished and the with block was left without an exception
FinishedNormally == pc \in {"return", "done"} /\ ~Logged("CRITICAL ERROR")

\* C12: when the main flow has finished normally the process terminates even
\* though the watchdog is still blocked in its read, and the main flow's exit
\* then has status 0.
C12_MonitorDoesNotBlockShutdown ==
    /\ (pc = "return" /\ wd = "reading" /\ stdin = "open") ~> exited
    /\ [](FinishedNormally /\ MainExited => exitCode = 0)

C12_Witness ==
    /\ MainExited /\ FinishedNormally /\ exitCode = 0
    /\ wd = "reading" /\ stdin = "open"

\* an uncaught error of the main flow is propagating or has been reported
Errored == exc \/ pc \in {"critical", "sys_exit"} \/ Logged("CRITICAL ERROR")

\* the errors of the main flow that no inner handler catches
UncaughtRaised ==
    \/ ~js_file_readable /\ pc \notin {"start", "load_js"}
    \/ Raised("launch")
    \/ \E i \in Issued("new_page") : ops[i][2] = "launched" /\ ~ops[i][3]
    \/ Raised("goto")
    \/ Raised("close")

\* C13 as stated: after an uncaught error of the main flow every exit of the
\* process has a non-zero status, the watchdog running concurrently or not.
C13_UncaughtErrorExitsNonZero ==
    (UncaughtRaised /\ exited) => exitCode # 0

\* C13 amended: every uncaught error of the main flow puts it on the error
\* path, on which the main flow ends the process with status 1; on that path
\* a status 0 comes only from the watchdog after end of stream on stdin; and
\* the process exits with status 0 only after the finalizer completed
\* normally or after the watchdog observed end of stream.
C13_ExitStatus ==
    /\ UncaughtRaised => Errored
    /\ (Errored /\ MainExited) => exitCode = 1
    /\ (exited /\ exitCode = 0) =>
          \/ MainExited /\ ~Errored /\ Logged("lifecycle")
          \/ MonitorExited /\ stdin = "eof"

C13_Witness ==
    /\ Raised("close") /\ MainExited /\ exitCode = 1
    /\ wd = "read_returned"

\* C14 as stated: on the fresh-launch path with keep-open true the loop ends
\* only when the browser reports disconnected, the process then exits with
\* status 0, and no close is issued.
C14_PollsWhileConnected ==
    Logged("keeping_open") =>
        /\ Issued("close") = {}
        /\ pc = "exit_playwright" => launchedState # "running"
        /\ MainExited => exitCode = 0

\* C14 amended: on the fresh-launch path with keep-open true the main flow
\* leaves the loop while the browser is connected only on an interrupt or a
\* monitoring error; the loop's own test ends it only once the browser is
\* disconnected, the main flow then exits with status 0, and no close is
\* issued on this path.
C14_PollsUntilDisconnectOrInterrupt ==
    Logged("keeping_open") =>
        /\ Issued("close") = {}
        /\ pc \in {"poll", "exit_playwright", "return", "done"}
        /\ (pc = "exit_playwright" /\ launchedState = "running")
              => (Logged("interrupted") \/ Logged("monitoring_error"))
        /\ Logged("closed_by_user") => launchedState = "gone"
        /\ pc # "poll" =>
              (Logged("closed_by_user") \/ Logged("interrupted")
                 \/ Logged("monitoring_error"))
        /\ MainExited => exitCode = 0

C14_Witness ==
    /\ Logged("keeping_open") /\ Logged("closed_by_user") /\ polls = MaxPolls
    /\ Succeeded("is_connected") /\ Issued("close") = {}
    /\ MainExited /\ exitCode = 0 /\ Len(stdout) = 1

AtMostOnce(name) == Cardinality(Issued(name)) <= 1

\* where each failing operation takes the main flow
FailureRouting ==
    /\ Raised("connect_over_cdp") => Logged("no_existing_browser")
    /\ (\E i \in Issued("new_page") : ops[i][2] = "existing" /\ ~ops[i][3])
          => Logged("no_existing_browser")
    /\ Raised("wait_for_load_state") => Logged("page_load_timeout")
    /\ ScanRaised => Logged("scan_failed")
    /\ UncaughtRaised => Errored
    /\ (Errored /\ MainExited) => (exitCode = 1 /\ Logged("CRITICAL ERROR"))

NoRetry ==
    /\ AtMostOnce("connect_over_cdp")
    /\ AtMostOnce("launch")
    /\ AtMostOnce("evaluate_script")
    /\ AtMostOnce("evaluate_scan")
    /\ AtMostOnce("close")

\* print(json.dumps(...)) of line 86 has raised
PrintFailed ==
    /\ Logged("scan_complete")
    /\ pc \notin {"print_json", "flush"}
    /\ stdout = <<>> /\ stdoutBuf = <<>>

FailureLogTags ==
    {"no_existing_browser", "page_load_timeout", "scan_failed",
     "monitoring_error", "CRITICAL ERROR"}

\* a failure has been logged after the scan's completion line
FailureLoggedAfterScan ==
    \E i, j \in DOMAIN stderr :
        i < j /\ stderr[i] = "scan_complete" /\ stderr[j] \in FailureLogTags

\* C15 as stated: none of attach, launch, injection, entry-point call and
\* close is issued twice, and every failure is logged and then either
\* continued from or ended with a non-zero status.
C15_NoRetryEveryFailureLogged ==
    /\ NoRetry
    /\ FailureRouting
    /\ (PrintFailed /\ pc = "finalize") => FailureLoggedAfterScan

\* C15 amended: none of attach, launch, injection, entry-point call and close
\* is issued twice; every failure of a browser operation or of the script
\* read is logged and then either continued from or taken to the exit with
\* status 1; a failure of writing the JSON to stdout is swallowed without a
\* log line and the main flow continues with the finalizer.
C15_NoRetryFailuresRouted ==
    /\ NoRetry
    /\ FailureRouting
    /\ PrintFailed =>
          /\ pc = "finalize" \/ PastFinalize
          /\ (Errored => CloseRaised)
          /\ pc = "finalize" => ~FailureLoggedAfterScan

C15_Witness ==
    /\ Raised("connect_over_cdp") /\ Raised("wait_for_load_state")
    /\ PrintFailed /\ Raised("close")
    /\ MainExited /\ exitCode = 1

ScanOps == Issued("evaluate_script") \cup Issued("evaluate_scan")
FinalizerOps == Issued("close") \cup Issued("is_connected")

\* C17: the watchdog is started before the script is read and before any
\* browser operation; injection and entry-point call are issued only with a
\* page handle, the call only after a successful injection; and every close
\* or connectivity poll comes after the scan attempt, which is then over.
C17_PhasesOrdered ==
    /\ wd = "unstarted" => (pc = "start" /\ ops = <<>>)
    /\ (pc \in {"inject", "invoke"} \/ ScanOps # {}) => page # "none"
    /\ \A i \in Issued("evaluate_scan") :
          \E j \in Issued("evaluate_script") : j < i /\ ops[j][3]
    /\ \A i \in FinalizerOps :
          /\ Issued("evaluate_script") # {}
          /\ \A j \in ScanOps : j < i
          /\ Raised("evaluate_script") \/ Issued("evaluate_scan") # {}
    /\ FinalizerOps # {} => pc \notin {"inject", "invoke", "print_json", "flush"}
    /\ pc \in {"poll", "close"} => Logged("starting_dom_scan")

C17_Witness ==
    /\ Succeeded("evaluate_scan") /\ Succeeded("is_connected")
    /\ pc = "poll" /\ wd = "reading" /\ page = "new_page@launched"

\* C18: the script is read before any browser interaction: with an
\* unreadable script no attach and no launch is attempted, no handle exists
\* and no browser changes state.
C18_UnreadableScriptNoBrowser ==
    /\ ~js_file_readable =>
          /\ Issued("connect_over_cdp") = {} /\ Issued("launch") = {}
          /\ handles = {} /\ browser = "none"
          /\ launchedState = "none"
          /\ existingState = (IF reachable THEN "running" ELSE "absent")
          /\ pc \in {"start", "load_js", "critical", "sys_exit", "done"}
    /\ pc \in {"start", "load_js"} => ops = <<>>

C18_Witness ==
    /\ ~js_file_readable /\ reachable /\ MainExited
    /\ existingState = "running" /\ ops = <<>>

====
